---- MODULE Spec2Model ----
(***************************************************************************)
(* Voiceover generation pipeline of runelite-quest-voiceover:              *)
(*   auto_generate_tourist_trap.py  (batch orchestrator, two SDK backends) *)
(*   generate_kokoro.py             (incremental orchestrator, KokoroTTS)  *)
(*   voiceover_cli/elevenlabs.py, voiceover_cli/kokoro.py (the backends)   *)
(* The output directory and the dialogs table persist across runs; each    *)
(* run is one invocation of one of the two scripts.                        *)
(***************************************************************************)
EXTENDS Integers, Sequences, FiniteSets, TLC

\* ------------------------------------------------------------ bounds
MaxLen == 3          \* number of dialogue lines of the quest transcript
MaxRuns == 2         \* script invocations per behaviour that pass their setup

\* Python's None, as returned by a function that falls off its end.
None == "None"

\* ------------------------------------------------------------ transcript
\* The example transcript of the specification, and one with a repeated
\* (character, text) pair and a character no voice table knows.
ExampleLines ==
  << <<"Guard", "Halt!">>,
     <<"Player", "[player name], let me pass">>,
     <<"Guard", "Very well.">> >>

RepeatLines ==
  << <<"Guard", "Halt!">>,
     <<"Guard", "Halt!">>,
     <<"Stranger", "Halt!">> >>

Cycle(base, n) == [i \in 1..n |-> base[((i - 1) % Len(base)) + 1]]

Transcripts == {Cycle(ExampleLines, MaxLen), Cycle(RepeatLines, MaxLen)}

StartLines == -1..(MaxLen + 1)

Range(s) == {s[i] : i \in DOMAIN s}

\* ------------------------------------------------------------ voices
\* auto_generate_tourist_trap.get_elevenlabs_voice_map: char_to_voice
char_to_voice ==
  ("Irena" :> "Jessica") @@ ("Ana" :> "Matilda") @@
  ("Ana (in a Barrel)" :> "Matilda") @@ ("Ana-in-barrel" :> "Matilda") @@
  ("Ana (in-a-barrel)," :> "Matilda") @@ ("Player" :> "Chris") @@
  ("Mercenary" :> "Harry") @@ ("Guard" :> "Liam") @@
  ("Mercenary Captain" :> "George") @@ ("Al Shabim" :> "Roger") @@
  ("Mine cart driver" :> "Callum") @@ ("Male slave" :> "Will") @@
  ("Escaping slave" :> "Eric") @@ ("Rowdy slave" :> "Charlie") @@
  ("Bedabin Nomad" :> "Adam") @@ ("Captain Siad" :> "Brian") @@
  ("Bedabin Nomad Guard" :> "Daniel")

\* What sdk.get_voices() can answer: voice name -> voice_id of the account.
VoiceLookups == { ("Liam" :> "v1"), ("Liam" :> "v1") @@ ("Chris" :> "v2") }

get_elevenlabs_voice_map_Names(voice_lookup) ==
  LET chars == {c \in DOMAIN char_to_voice : char_to_voice[c] \in DOMAIN voice_lookup}
  IN  [c \in chars |-> char_to_voice[c]]

get_elevenlabs_voice_map(voice_lookup) ==
  LET chars == {c \in DOMAIN char_to_voice : char_to_voice[c] \in DOMAIN voice_lookup}
  IN  [c \in chars |-> voice_lookup[char_to_voice[c]]]

\* voiceover_cli/kokoro.py: KokoroSDK.VOICES (keys)
KokoroSDK_VOICES ==
  {"af_heart", "af_alloy", "af_aoede", "af_bella", "af_jessica", "af_kore",
   "af_nicole", "af_nova", "af_river", "af_sarah", "af_sky",
   "am_adam", "am_echo", "am_eric", "am_fenrir", "am_liam", "am_michael",
   "am_onyx", "am_puck", "am_santa"}

get_voice_mapping_kokoro ==
  ("Irena" :> "af_jessica") @@ ("Ana" :> "af_bella") @@
  ("Ana (in a Barrel)" :> "af_bella") @@ ("Ana-in-barrel" :> "af_bella") @@
  ("Ana (in-a-barrel)," :> "af_bella") @@ ("Player" :> "am_michael") @@
  ("Mercenary" :> "am_fenrir") @@ ("Guard" :> "am_liam") @@
  ("Mercenary Captain" :> "am_onyx") @@ ("Al Shabim" :> "am_adam") @@
  ("Mine cart driver" :> "am_puck") @@ ("Male slave" :> "am_echo") @@
  ("Escaping slave" :> "am_eric") @@ ("Rowdy slave" :> "am_fenrir") @@
  ("Bedabin Nomad" :> "am_adam") @@ ("Captain Siad" :> "am_onyx") @@
  ("Bedabin Nomad Guard" :> "am_liam")

\* generate_kokoro.py: AVAILABLE_VOICES (keys)
AVAILABLE_VOICES ==
  {"af_heart", "af_alloy", "af_aoede", "af_bella", "af_jessica", "af_kore",
   "af_nicole", "af_nova", "af_river", "af_sarah", "af_sky",
   "am_adam", "am_echo", "am_eric", "am_fenrir", "am_liam", "am_michael",
   "am_onyx", "am_puck", "am_santa"}

\* generate_kokoro.py voice pools (0-based lists as 1-based sequences)
FEMALE_VOICES ==
  <<"af_bella", "af_jessica", "af_nicole", "af_sarah",
    "af_sky", "af_river", "af_heart", "af_nova">>

MALE_VOICES ==
  <<"am_michael", "am_adam", "am_liam", "am_eric",
    "am_fenrir", "am_onyx", "am_puck", "am_echo">>

\* generate_kokoro.VOICE_MAP: the manual overrides, empty in the source.
VOICE_MAP == [c \in {} |-> None]

\* Python's hash(str) is salted per process (PYTHONHASHSEED): the value
\* depends on the process's seed as well as on the string; it is a signed
\* integer, and the hash of the empty string is 0 under every seed.
HashSeeds == {0, 1}

PyHash(seed, s) == IF s = "" THEN 0 ELSE (Len(s) * 31 + seed * 5) - 64

get_voice_for_character_FemaleDefault(seed, character, gender) ==
  IF gender = "male"
  THEN MALE_VOICES[(PyHash(seed, character) % Len(MALE_VOICES)) + 1]
  ELSE FEMALE_VOICES[(PyHash(seed, character) % Len(FEMALE_VOICES)) + 1]

get_voice_for_character(seed, character, gender) ==
  IF gender = "female"
  THEN FEMALE_VOICES[(PyHash(seed, character) % Len(FEMALE_VOICES)) + 1]
  ELSE MALE_VOICES[(PyHash(seed, character) % Len(MALE_VOICES)) + 1]

\* What the wiki answers for a character's gender (get_characters_genders).
GenderAnswers ==
  { [c \in {"Guard", "Player", "Stranger"} |-> None],
    [c \in {"Guard", "Player", "Stranger"} |-> IF c = "Guard" THEN "female" ELSE "male"] }

\* ------------------------------------------------------------ audio cache
\* utils.str_to_md5 / hashlib.md5(...).hexdigest(): the digest of the key
\* string, kept symbolic (distinct key strings give distinct digests).
str_to_md5(s) == "md5(" \o s \o ")"

ContentKey(character, line) == character \o "|" \o line

FileName(character, line) == str_to_md5(ContentKey(character, line)) \o ".mp3"

\* os.path.exists(file_path) / file_path.exists() on the output directory.
ArtifactExists_Never(fs, file_name) == FALSE

ArtifactExists(fs, file_name) == file_name \in fs

\* How the underlying synthesis mechanism answers one call.
ElevenOutcomes == {"ok", "error", "quota"}
KokoroOutcomes == {"ok", "error"}
Outcomes(b) == IF b = "elevenlabs" THEN ElevenOutcomes ELSE KokoroOutcomes

\* The result of one generate call: the value returned (or the exception
\* raised), the output directory afterwards and whether the underlying
\* synthesis mechanism was invoked.
Returned(ret, fs, synth) == [raised |-> "no", ret |-> ret, files |-> fs, synth |-> synth]
Raised(kind, fs, synth) == [raised |-> kind, ret |-> None, files |-> fs, synth |-> synth]

\* ElevenlabsSDK.generate: the return statement is inside the cache-miss
\* branch only; on a cache hit the function falls off its end.
ElevenlabsSDK_generate(fs, character, voice_id, line, out) ==
  LET file_name == FileName(character, line)
  IN  IF ~ArtifactExists(fs, file_name)
      THEN IF out = "ok"
           THEN Returned(file_name, fs \cup {file_name}, TRUE)
           ELSE Raised(out, fs, TRUE)
      ELSE Returned(None, fs, FALSE)

\* KokoroSDK.generate
KokoroSDK_generate(fs, character, voice_id, line, out) ==
  LET file_name == FileName(character, line)
  IN  IF ArtifactExists(fs, file_name)
      THEN Returned(file_name, fs, FALSE)
      ELSE IF out = "nopipeline"
           THEN Raised("error", fs, FALSE)
           ELSE IF voice_id \notin KokoroSDK_VOICES
                THEN Raised("error", fs, FALSE)
                ELSE IF out = "ok"
                     THEN Returned(file_name, fs \cup {file_name}, TRUE)
                     ELSE Raised("error", fs, TRUE)

\* KokoroTTS.generate (generate_kokoro.py)
KokoroTTS_generate(fs, character, voice_id, text, out) ==
  LET file_name == FileName(character, text)
  IN  IF ArtifactExists(fs, file_name)
      THEN Returned(file_name, fs, FALSE)
      ELSE IF out = "ok"
           THEN Returned(file_name, fs \cup {file_name}, TRUE)
           ELSE Raised("error", fs, TRUE)

\* sdk.generate(...) of auto_generate_tourist_trap: the SDK --backend chose.
sdk_generate(b, fs, character, voice_id, line, out) ==
  IF b = "elevenlabs"
  THEN ElevenlabsSDK_generate(fs, character, voice_id, line, out)
  ELSE KokoroSDK_generate(fs, character, voice_id, line, out)

\* ------------------------------------------------------------ state
VARIABLES
  files,           \* file names present in the output directory
  store,           \* rows of the dialogs table, in insertion order
  synthesized,     \* file name -> the successful underlying syntheses so far
  firstRef,        \* file name -> what the first returning generate call returned
  runs,            \* script invocations that passed their setup so far
  pc,              \* "idle" | "loop" | "save" | "finish" | "done"
  script,          \* "tourist" | "kokoro": which script this run executes
  backend,         \* args.backend; "kokorotts" for generate_kokoro.py
  start_line,      \* args.start_line
  transcript,      \* flattened_transcript as fetched, before slicing
  dialogue_lines,  \* the list the loop enumerates (after slicing)
  voices,          \* character_voice_ids / voice_assignments
  idx,             \* enumerate index of the next line
  generated_data,  \* auto_generate_tourist_trap: records awaiting the save
  skipped,         \* skipped_count / skipped
  generated,       \* generate_kokoro: generated
  errors,          \* generate_kokoro: errors
  call,            \* the last generate call of this run and its result
  lineLog,         \* per consumed line of this run: absolute index, outcome
  errorLog,        \* line numbers printed by "Error on line ..."
  resume,          \* the offsets printed by "Resume with: --start-line ..."
  summary,         \* the counts printed at the end of the run
  start0,          \* output directory and table size when the run started
  setup,           \* what the run's setup met: "ok" or the condition that failed
  conn,            \* the run's sqlite connection: "none" | "open" | "closed"
  h                \* comparison harness of the resumability check

envVars == <<files, store, synthesized, firstRef>>
cfgVars == <<script, backend, start_line, transcript, dialogue_lines, voices, start0, setup>>
cntVars == <<generated_data, skipped, generated, errors>>
obsVars == <<call, lineLog, errorLog, resume, summary>>
vars == <<files, store, synthesized, firstRef, runs, pc, script, backend,
          start_line, transcript, dialogue_lines, voices, idx, generated_data,
          skipped, generated, errors, call, lineLog, errorLog, resume,
          summary, start0, setup, conn, h>>

AllLines == UNION {Range(t) : t \in Transcripts}
AllFileNames == {FileName(l[1], l[2]) : l \in AllLines}

NoCall ==
  [line |-> -1, character |-> None, text |-> None, voice_id |-> None,
   next_line |-> None, previous_line |-> None, existed |-> FALSE,
   synth |-> FALSE, raised |-> "no", ret |-> None]

\* tourist_trap['title'] and the quest_name generate_kokoro.py derives.
QuestTitle == "Transcript:The Tourist Trap"
quest_name == "The Tourist Trap"

\* dialogue_lines[args.start_line:] (taken only when start_line > 0)
Slice_OffByOne(lines, start) == SubSeq(lines, start + 2, Len(lines))

Slice(lines, start) == SubSeq(lines, start + 1, Len(lines))

\* "if args.start_line > 0: dialogue_lines = dialogue_lines[args.start_line:]"
RunLines(lines, start) == IF start > 0 THEN Slice(lines, start) ELSE lines

\* The position in the fetched transcript of the line the loop is at.
AbsIdx == Len(transcript) - Len(dialogue_lines) + idx

\* The loop's position after consuming a line: the for loop ends with the list.
AfterLoop == IF script = "tourist" THEN "save" ELSE "finish"
Advance(i) == IF i < Len(dialogue_lines) THEN "loop" ELSE AfterLoop

\* "continue" after the line at index i: on to line i + 1, if there is one.
Continue_Break(i) == AfterLoop

Continue(i) == Advance(i + 1)

\* "if 'quota_exceeded' in str(e)": the exception is the service's quota error.
QuotaExceeded_Never(kind) == FALSE

QuotaExceeded_Always(kind) == TRUE

QuotaExceeded(kind) == kind = "quota"

\* auto_generate_tourist_trap.main lines 147-148
previous_line_of_Self(lines, i) == IF i > 0 THEN lines[i + 1][2] ELSE None

previous_line_of(lines, i) == IF i > 0 THEN lines[i][2] ELSE None
next_line_of(lines, i) == IF i < Len(lines) - 1 THEN lines[i + 2][2] ELSE None

\* database.insert_quest_voiceover (voiceover_cli/database.py): one row
\* appended per call.
insert_quest_voiceover(rows, quest, character, text, uri) ==
  Append(rows, [quest |-> quest, character |-> character, text |-> text, uri |-> uri])

\* generate_kokoro.dialog_exists / insert_dialog
dialog_exists(rows, character, text) ==
  \E r \in Range(rows) : r.character = character /\ r.text = text

insert_dialog(rows, quest, character, text, uri) ==
  Append(rows, [quest |-> quest, character |-> character, text |-> text, uri |-> uri])

\* The save loop of lines 174-181: one insert per queued record, in order.
SaveAll_SkipFirst(rows, items) == IF items = <<>> THEN rows ELSE rows \o Tail(items)

RECURSIVE SaveAll(_, _)
SaveAll(rows, items) ==
  IF items = <<>> THEN rows
  ELSE SaveAll(insert_quest_voiceover(rows, items[1].quest, items[1].character,
                                      items[1].text, items[1].uri),
               Tail(items))

\* Bookkeeping of one generate call: per file name, the successful
\* underlying syntheses and the first value a call returned.
NoteCall(file_name, voice_id, r) ==
  /\ synthesized' = IF r.synth /\ r.raised = "no"
                    THEN [synthesized EXCEPT
                            ![file_name] = Append(@, [backend |-> backend, voice_id |-> voice_id])]
                    ELSE synthesized
  /\ firstRef' = IF r.raised = "no" /\ firstRef[file_name] = "unset"
                 THEN [firstRef EXCEPT ![file_name] = r.ret]
                 ELSE firstRef

CallRecord(character, text, voice_id, nxt, prev, r) ==
  [line |-> AbsIdx, character |-> character, text |-> text, voice_id |-> voice_id,
   next_line |-> nxt, previous_line |-> prev,
   existed |-> FileName(character, text) \in files,
   synth |-> r.synth, raised |-> r.raised, ret |-> r.ret]

Logged(status) == Append(lineLog, [line |-> AbsIdx, status |-> status])

Init ==
  /\ files = {}
  /\ store = <<>>
  /\ synthesized = [f \in AllFileNames |-> <<>>]
  /\ firstRef = [f \in AllFileNames |-> "unset"]
  /\ runs = 0
  /\ pc = "idle"
  /\ script = "tourist"
  /\ backend = "kokoro"
  /\ start_line = 0
  /\ transcript \in Transcripts
  /\ dialogue_lines = <<>>
  /\ voices = [c \in {} |-> None]
  /\ idx = 0
  /\ generated_data = <<>>
  /\ skipped = 0
  /\ generated = 0
  /\ errors = 0
  /\ call = NoCall
  /\ lineLog = <<>>
  /\ errorLog = <<>>
  /\ resume = <<>>
  /\ summary = <<>>
  /\ start0 = [files |-> {}, rows |-> 0, known |-> {}]
  /\ setup = "ok"
  /\ conn = "none"
  /\ h = [phase |-> "free"]

\* ------------------------------------------------------------ setup
\* What a run's setup can meet: the quest is not among wiki_utils.get_quests(),
\* ELEVENLABS_API_KEY is not set, neither espeak nor espeak-ng is installed,
\* KPipeline(...) cannot be created. A condition the chosen script and
\* backend never test leaves the run as "ok".
SetupConditions == {"ok", "no_quest", "no_api_key", "no_espeak", "no_pipeline"}

\* auto_generate_tourist_trap.main: "return" at lines 100 and 108, and the
\* RuntimeError of KokoroSDK._check_espeak raised through KokoroSDK().
TouristFatal(b, env) ==
  \/ env = "no_quest"
  \/ b = "elevenlabs" /\ env = "no_api_key"
  \/ b = "kokoro" /\ env = "no_espeak"

\* KokoroSDK creates its pipeline on the first generate call that misses the
\* cache (_get_pipeline): the setup of the run does not meet the condition.
TouristProceeds(b, env) ==
  \/ env = "ok"
  \/ b = "kokoro" /\ env = "no_pipeline"

\* generate_kokoro.main: sys.exit(1) at lines 310 and 375, and in
\* KokoroTTS._check_espeak.
KokoroFatal(env) == env \in {"no_quest", "no_espeak", "no_pipeline"}

\* No process of the pipeline is running.
Ended == {"idle", "aborted", "killed"}

\* What the synthesis mechanism can answer in this run; "nopipeline":
\* KokoroSDK._get_pipeline raises, KPipeline(...) cannot be created.
RunOutcomes == IF setup = "no_pipeline" THEN {"nopipeline"} ELSE Outcomes(backend)

\* ------------------------------------------------------------ auto_generate_tourist_trap.py
\* main() up to the loop: backend and voice map, transcript, resume slice.
TouristStart(t, s, b, voice_lookup, env) ==
  /\ pc \in Ended
  /\ TouristProceeds(b, env)
  /\ setup' = env
  /\ conn' = "none"
  /\ pc' = IF Len(RunLines(t, s)) > 0 THEN "loop" ELSE "save"
  /\ runs' = runs + 1
  /\ script' = "tourist"
  /\ backend' = b
  /\ start_line' = s
  /\ transcript' = t
  /\ dialogue_lines' = RunLines(t, s)
  /\ voices' = IF b = "elevenlabs"
               THEN get_elevenlabs_voice_map(voice_lookup)
               ELSE get_voice_mapping_kokoro
  /\ idx' = 0
  /\ generated_data' = <<>>
  /\ skipped' = 0
  /\ generated' = 0
  /\ errors' = 0
  /\ call' = NoCall
  /\ lineLog' = <<>>
  /\ errorLog' = <<>>
  /\ resume' = <<>>
  /\ summary' = <<>>
  /\ start0' = [files |-> files, rows |-> Len(store),
                known |-> IF b = "elevenlabs"
                          THEN {voice_lookup[n] : n \in DOMAIN voice_lookup}
                          ELSE KokoroSDK_VOICES]
  /\ UNCHANGED envVars

\* main() ends in its setup: lines 94-113. (--start-line is parsed and never
\* read.)
TouristAbort(b, env) ==
  /\ pc \in Ended
  /\ TouristFatal(b, env)
  /\ pc' = "aborted"
  /\ setup' = env
  /\ conn' = "none"
  /\ script' = "tourist"
  /\ backend' = b
  /\ start_line' = 0
  /\ dialogue_lines' = <<>>
  /\ voices' = [c \in {} |-> None]
  /\ idx' = 0
  /\ generated_data' = <<>>
  /\ skipped' = 0
  /\ generated' = 0
  /\ errors' = 0
  /\ call' = NoCall
  /\ lineLog' = <<>>
  /\ errorLog' = <<>>
  /\ resume' = <<>>
  /\ summary' = <<>>
  /\ start0' = [files |-> files, rows |-> Len(store), known |-> {}]
  /\ UNCHANGED <<envVars, transcript, runs>>

\* Loop body, lines 141-144: no voice assigned.
TouristSkip ==
  /\ pc = "loop"
  /\ script = "tourist"
  /\ dialogue_lines[idx + 1][1] \notin DOMAIN voices
  /\ skipped' = skipped + 1
  /\ idx' = idx + 1
  /\ pc' = Continue(idx)
  /\ lineLog' = Logged("skip")
  /\ UNCHANGED <<envVars, cfgVars, runs, generated_data, generated, errors,
                 call, errorLog, resume, summary, conn>>

\* The sdk.generate call of the try block for the line at idx.
TouristCall(out) ==
  sdk_generate(backend, files, dialogue_lines[idx + 1][1],
               voices[dialogue_lines[idx + 1][1]], dialogue_lines[idx + 1][2], out)

TouristNote(r) ==
  /\ call' = CallRecord(dialogue_lines[idx + 1][1], dialogue_lines[idx + 1][2],
                        voices[dialogue_lines[idx + 1][1]],
                        next_line_of(dialogue_lines, idx),
                        previous_line_of(dialogue_lines, idx), r)
  /\ NoteCall(FileName(dialogue_lines[idx + 1][1], dialogue_lines[idx + 1][2]),
              voices[dialogue_lines[idx + 1][1]], r)
  /\ files' = r.files

\* Loop body, lines 146-158: generate returned, the record is queued.
TouristGenerate(out) ==
  /\ pc = "loop"
  /\ script = "tourist"
  /\ dialogue_lines[idx + 1][1] \in DOMAIN voices
  /\ TouristCall(out).raised = "no"
  /\ TouristNote(TouristCall(out))
  /\ generated_data' = Append(generated_data,
                              [quest |-> QuestTitle,
                               character |-> dialogue_lines[idx + 1][1],
                               text |-> dialogue_lines[idx + 1][2],
                               uri |-> TouristCall(out).ret])
  /\ idx' = idx + 1
  /\ pc' = Advance(idx + 1)
  /\ lineLog' = Logged("ok")
  /\ UNCHANGED <<store, cfgVars, runs, skipped, generated, errors,
                 errorLog, resume, summary, conn>>

\* Loop body, lines 160-161 and 167: an exception without 'quota_exceeded'.
TouristError(out) ==
  /\ pc = "loop"
  /\ script = "tourist"
  /\ dialogue_lines[idx + 1][1] \in DOMAIN voices
  /\ TouristCall(out).raised # "no"
  /\ ~QuotaExceeded(TouristCall(out).raised)
  /\ TouristNote(TouristCall(out))
  /\ errorLog' = Append(errorLog, (idx + start_line) + 1)
  /\ idx' = idx + 1
  /\ pc' = Continue(idx)
  /\ lineLog' = Logged(TouristCall(out).raised)
  /\ UNCHANGED <<store, cfgVars, runs, cntVars, resume, summary, conn>>

\* The offset of "Resume with: --start-line {actual_idx}".
ResumeOffset_LoopIndex(i, s) == i

ResumeOffset(i, s) == i + s

\* Loop body, lines 160-166: 'quota_exceeded' in str(e), break.
TouristQuota(out) ==
  /\ pc = "loop"
  /\ script = "tourist"
  /\ dialogue_lines[idx + 1][1] \in DOMAIN voices
  /\ TouristCall(out).raised # "no"
  /\ QuotaExceeded(TouristCall(out).raised)
  /\ TouristNote(TouristCall(out))
  /\ errorLog' = Append(errorLog, (idx + start_line) + 1)
  /\ resume' = Append(resume, ResumeOffset(idx, start_line))
  /\ pc' = "save"
  /\ lineLog' = Logged(TouristCall(out).raised)
  /\ UNCHANGED <<store, cfgVars, runs, idx, cntVars, summary, conn>>

\* Lines 169-189: the connection is opened, every queued record inserted,
\* the connection closed and the summary printed.
TouristSave ==
  /\ pc = "save"
  /\ script = "tourist"
  /\ store' = SaveAll(store, generated_data)
  /\ conn' = "closed"
  /\ summary' = << <<"Generated", Len(generated_data)>>, <<"Skipped", skipped>> >>
  /\ pc' = "done"
  /\ UNCHANGED <<files, synthesized, firstRef, cfgVars, runs, idx, cntVars,
                 call, lineLog, errorLog, resume>>

\* The process ends; the output directory and the table stay.
Exit ==
  /\ pc = "done"
  /\ pc' = "idle"
  /\ UNCHANGED <<envVars, cfgVars, runs, idx, cntVars, obsVars, conn>>

\* ------------------------------------------------------------ generate_kokoro.py
\* main() lines 340-361: one voice per character of the transcript.
voice_assignments_of_KnownGender(t, seed, character_genders) ==
  [c \in {l[1] : l \in Range(t)} \cap
          ({k \in DOMAIN character_genders : character_genders[k] # None}
             \cup DOMAIN VOICE_MAP) |->
     IF c \in DOMAIN VOICE_MAP
     THEN VOICE_MAP[c]
     ELSE get_voice_for_character(seed, c, character_genders[c])]

voice_assignments_of(t, seed, character_genders) ==
  [c \in {l[1] : l \in Range(t)} |->
     IF c \in DOMAIN VOICE_MAP
     THEN VOICE_MAP[c]
     ELSE get_voice_for_character(seed, c, character_genders[c])]

\* main() up to the loop: voices, KokoroTTS, init_database, resume slice.
KokoroStart(t, s, seed, character_genders) ==
  /\ pc \in Ended
  /\ setup' = "ok"
  /\ conn' = "open"
  /\ pc' = IF Len(RunLines(t, s)) > 0 THEN "loop" ELSE "finish"
  /\ runs' = runs + 1
  /\ script' = "kokoro"
  /\ backend' = "kokorotts"
  /\ start_line' = s
  /\ transcript' = t
  /\ dialogue_lines' = RunLines(t, s)
  /\ voices' = voice_assignments_of(t, seed, character_genders)
  /\ idx' = 0
  /\ generated_data' = <<>>
  /\ skipped' = 0
  /\ generated' = 0
  /\ errors' = 0
  /\ call' = NoCall
  /\ lineLog' = <<>>
  /\ errorLog' = <<>>
  /\ resume' = <<>>
  /\ summary' = <<>>
  /\ start0' = [files |-> files, rows |-> Len(store), known |-> AVAILABLE_VOICES]
  /\ UNCHANGED envVars

\* main() ends in its setup: lines 298-319 and 363-375, before init_database.
\* (--start-line is parsed and never read.)
KokoroAbort(env) ==
  /\ pc \in Ended
  /\ KokoroFatal(env)
  /\ pc' = "aborted"
  /\ setup' = env
  /\ conn' = "none"
  /\ script' = "kokoro"
  /\ backend' = "kokorotts"
  /\ start_line' = 0
  /\ dialogue_lines' = <<>>
  /\ voices' = [c \in {} |-> None]
  /\ idx' = 0
  /\ generated_data' = <<>>
  /\ skipped' = 0
  /\ generated' = 0
  /\ errors' = 0
  /\ call' = NoCall
  /\ lineLog' = <<>>
  /\ errorLog' = <<>>
  /\ resume' = <<>>
  /\ summary' = <<>>
  /\ start0' = [files |-> files, rows |-> Len(store), known |-> {}]
  /\ UNCHANGED <<envVars, transcript, runs>>

\* The process is killed while it runs (operator interrupt): what it has
\* written to the output directory and to the table stays, the rest is lost.
Interrupt ==
  /\ pc \in {"loop", "save", "finish"}
  /\ pc' = "killed"
  /\ UNCHANGED <<envVars, cfgVars, runs, idx, cntVars, obsVars, conn>>

\* The line number of "Error on line {args.start_line + idx}".
KokoroErrorLine(i, s) == s + i

\* One iteration of the loop, lines 391-410.
KokoroLine(out) ==
  /\ pc = "loop"
  /\ script = "kokoro"
  /\ LET character == dialogue_lines[idx + 1][1]
         text == dialogue_lines[idx + 1][2]
     IN  IF character \notin DOMAIN voices
         THEN /\ skipped' = skipped + 1
              /\ lineLog' = Logged("skip")
              /\ UNCHANGED <<envVars, generated, errors, call, errorLog>>
         ELSE LET r == KokoroTTS_generate(files, character, voices[character], text, out)
              IN  /\ call' = CallRecord(character, text, voices[character], None, None, r)
                  /\ NoteCall(FileName(character, text), voices[character], r)
                  /\ files' = r.files
                  /\ IF r.raised = "no"
                     THEN /\ store' = IF ~dialog_exists(store, character, text)
                                      THEN insert_dialog(store, quest_name, character, text, r.ret)
                                      ELSE store
                          /\ generated' = generated + 1
                          /\ lineLog' = Logged("ok")
                          /\ UNCHANGED <<errors, errorLog>>
                     ELSE /\ errorLog' = Append(errorLog, KokoroErrorLine(idx, start_line))
                          /\ errors' = errors + 1
                          /\ lineLog' = Logged("error")
                          /\ UNCHANGED <<store, generated>>
                  /\ UNCHANGED skipped
  /\ idx' = idx + 1
  /\ pc' = Advance(idx + 1)
  /\ UNCHANGED <<cfgVars, runs, generated_data, resume, summary, conn>>

\* Lines 412-418: conn.close() and the summary.
KokoroFinish_NoClose ==
  /\ pc = "finish"
  /\ script = "kokoro"
  /\ summary' = << <<"Generated", generated>>, <<"Skipped", skipped>>, <<"Errors", errors>> >>
  /\ pc' = "done"
  /\ UNCHANGED <<envVars, cfgVars, runs, idx, cntVars, call, lineLog, errorLog, resume, conn>>

KokoroFinish ==
  /\ pc = "finish"
  /\ script = "kokoro"
  /\ conn' = "closed"
  /\ summary' = << <<"Generated", generated>>, <<"Skipped", skipped>>, <<"Errors", errors>> >>
  /\ pc' = "done"
  /\ UNCHANGED <<envVars, cfgVars, runs, idx, cntVars, call, lineLog, errorLog, resume>>

\* ------------------------------------------------------------ specification
\* Any sequence of invocations of the two scripts on one quest transcript.
Next ==
  \/ \E s \in StartLines, b \in {"kokoro", "elevenlabs"}, vl \in VoiceLookups :
       runs < MaxRuns /\ TouristStart(transcript, s, b, vl, "ok") /\ UNCHANGED h
  \/ TouristSkip /\ UNCHANGED h
  \/ \E out \in RunOutcomes : TouristGenerate(out) /\ UNCHANGED h
  \/ \E out \in RunOutcomes : TouristError(out) /\ UNCHANGED h
  \/ \E out \in RunOutcomes : TouristQuota(out) /\ UNCHANGED h
  \/ TouristSave /\ UNCHANGED h
  \/ \E s \in StartLines, seed \in HashSeeds, g \in GenderAnswers :
       runs < MaxRuns /\ KokoroStart(transcript, s, seed, g) /\ UNCHANGED h
  \/ \E out \in KokoroOutcomes : KokoroLine(out) /\ UNCHANGED h
  \/ KokoroFinish /\ UNCHANGED h
  \/ Exit /\ UNCHANGED h

Spec == Init /\ [][Next]_vars

\* A started script runs on: the interpreter executes the loop and what
\* follows it statement by statement, and every generate call returns or
\* raises.
RunStep ==
  \/ TouristSkip /\ UNCHANGED h
  \/ \E out \in RunOutcomes : TouristGenerate(out) /\ UNCHANGED h
  \/ \E out \in RunOutcomes : TouristError(out) /\ UNCHANGED h
  \/ \E out \in RunOutcomes : TouristQuota(out) /\ UNCHANGED h
  \/ TouristSave /\ UNCHANGED h
  \/ \E out \in KokoroOutcomes : KokoroLine(out) /\ UNCHANGED h
  \/ KokoroFinish /\ UNCHANGED h

\* One invocation of either script, on an output directory that is empty,
\* holds one artifact, or holds every artifact of the transcript (as a run
\* killed before its save leaves it).
InitLive ==
  /\ transcript \in Transcripts
  /\ files \in {{}, {FileName("Guard", "Halt!")},
                {FileName(transcript[i][1], transcript[i][2]) : i \in DOMAIN transcript}}
  /\ store = <<>>
  /\ synthesized = [f \in AllFileNames |-> <<>>]
  /\ firstRef = [f \in AllFileNames |-> "unset"]
  /\ runs = 0
  /\ pc = "idle"
  /\ script = "tourist"
  /\ backend = "kokoro"
  /\ start_line = 0
  /\ dialogue_lines = <<>>
  /\ voices = [c \in {} |-> None]
  /\ idx = 0
  /\ generated_data = <<>>
  /\ skipped = 0
  /\ generated = 0
  /\ errors = 0
  /\ call = NoCall
  /\ lineLog = <<>>
  /\ errorLog = <<>>
  /\ resume = <<>>
  /\ summary = <<>>
  /\ start0 = [files |-> {}, rows |-> 0, known |-> {}]
  /\ setup = "ok"
  /\ conn = "none"
  /\ h = [phase |-> "free"]

NextLive ==
  \/ \E s \in StartLines, b \in {"kokoro", "elevenlabs"}, vl \in VoiceLookups :
       runs = 0 /\ TouristStart(transcript, s, b, vl, "ok") /\ UNCHANGED h
  \/ \E s \in StartLines, seed \in HashSeeds, g \in GenderAnswers :
       runs = 0 /\ KokoroStart(transcript, s, seed, g) /\ UNCHANGED h
  \/ RunStep
  \/ Exit /\ UNCHANGED h

SpecLive == InitLive /\ [][NextLive]_vars /\ WF_vars(RunStep)

\* The same invocations, and invocations whose setup meets a missing quest,
\* API key, espeak or pipeline.
NextSetup ==
  \/ Next
  \/ \E s \in StartLines, env \in SetupConditions \ {"ok"} :
       runs < MaxRuns /\ TouristStart(transcript, s, "kokoro", ("Liam" :> "v1"), env)
                      /\ UNCHANGED h
  \/ \E b \in {"kokoro", "elevenlabs"}, env \in SetupConditions :
       runs < MaxRuns /\ TouristAbort(b, env) /\ UNCHANGED h
  \/ \E env \in SetupConditions :
       runs < MaxRuns /\ KokoroAbort(env) /\ UNCHANGED h

SpecSetup == Init /\ [][NextSetup]_vars

\* The invocations of Spec, any of which the operator may interrupt.
NextInterrupt ==
  \/ Next
  \/ Interrupt /\ UNCHANGED h

SpecInterrupt == Init /\ [][NextInterrupt]_vars

\* ------------------------------------------------------------ resumability comparison
\* One quest, one backend configuration and one answer of the synthesis
\* mechanism per line; first a run over the whole transcript from offset 0,
\* then, from the same output directory and table as that run started with,
\* a run over lines [0, k) followed by a run resumed at offset k.
RunConfigs ==
  {[script |-> "tourist", backend |-> b, voice_lookup |-> vl, seed |-> 0,
    genders |-> [c \in {"Guard", "Player", "Stranger"} |-> None]] :
       b \in {"kokoro", "elevenlabs"}, vl \in VoiceLookups}
  \cup
  {[script |-> "kokoro", backend |-> "kokorotts", voice_lookup |-> ("Liam" :> "v1"),
    seed |-> sd, genders |-> [c \in {"Guard", "Player", "Stranger"} |-> None]] :
       sd \in HashSeeds}

InitResume ==
  /\ transcript \in Transcripts
  /\ \E k \in 0..MaxLen, cfg \in RunConfigs, fs \in {{}, {FileName("Guard", "Halt!")}} :
       \E plan \in [1..MaxLen -> Outcomes(cfg.backend)] :
         /\ h = [phase |-> "start", t |-> transcript, k |-> k, cfg |-> cfg,
                 plan |-> plan, files0 |-> fs, fullRows |-> <<>>,
                 firstHalted |-> FALSE]
         /\ files = fs
  /\ store = <<>>
  /\ synthesized = [f \in AllFileNames |-> <<>>]
  /\ firstRef = [f \in AllFileNames |-> "unset"]
  /\ runs = 0
  /\ pc = "idle"
  /\ script = "tourist"
  /\ backend = "kokoro"
  /\ start_line = 0
  /\ dialogue_lines = <<>>
  /\ voices = [c \in {} |-> None]
  /\ idx = 0
  /\ generated_data = <<>>
  /\ skipped = 0
  /\ generated = 0
  /\ errors = 0
  /\ call = NoCall
  /\ lineLog = <<>>
  /\ errorLog = <<>>
  /\ resume = <<>>
  /\ summary = <<>>
  /\ start0 = [files |-> {}, rows |-> 0, known |-> {}]
  /\ setup = "ok"
  /\ conn = "none"

\* An invocation of the configured script on transcript t from offset s.
StartCfg(t, s) ==
  IF h.cfg.script = "tourist"
  THEN TouristStart(t, s, h.cfg.backend, h.cfg.voice_lookup, "ok")
  ELSE KokoroStart(t, s, h.cfg.seed, h.cfg.genders)

\* What the synthesis mechanism answers for the line the loop is at.
PlanOut == h.plan[AbsIdx + 1]

ResumeStartFull ==
  /\ h.phase = "start"
  /\ StartCfg(h.t, 0)
  /\ h' = [h EXCEPT !.phase = "full"]

\* The full run is over: its table is kept aside, and the output directory
\* and the table are put back to what the full run started with.
ResumeRestore ==
  /\ h.phase = "full"
  /\ pc = "done"
  /\ pc' = "idle"
  /\ conn' = "none"
  /\ h' = [h EXCEPT !.phase = "restored", !.fullRows = store]
  /\ store' = <<>>
  /\ files' = h.files0
  /\ synthesized' = [f \in AllFileNames |-> <<>>]
  /\ firstRef' = [f \in AllFileNames |-> "unset"]
  /\ UNCHANGED <<cfgVars, runs, idx, cntVars, obsVars>>

ResumeStartFirst ==
  /\ h.phase = "restored"
  /\ StartCfg(SubSeq(h.t, 1, h.k), 0)
  /\ h' = [h EXCEPT !.phase = "first"]

ResumeExitFirst ==
  /\ h.phase = "first"
  /\ Exit
  /\ h' = [h EXCEPT !.phase = "between", !.firstHalted = (resume # <<>>)]

ResumeStartSecond ==
  /\ h.phase = "between"
  /\ StartCfg(h.t, h.k)
  /\ h' = [h EXCEPT !.phase = "second"]

NextResume ==
  \/ ResumeStartFull
  \/ ResumeRestore
  \/ ResumeStartFirst
  \/ ResumeExitFirst
  \/ ResumeStartSecond
  \/ TouristSkip /\ UNCHANGED h
  \/ TouristGenerate(PlanOut) /\ UNCHANGED h
  \/ TouristError(PlanOut) /\ UNCHANGED h
  \/ TouristQuota(PlanOut) /\ UNCHANGED h
  \/ TouristSave /\ UNCHANGED h
  \/ KokoroLine(PlanOut) /\ UNCHANGED h
  \/ KokoroFinish /\ UNCHANGED h

SpecResume == InitResume /\ [][NextResume]_vars

\* ------------------------------------------------------------ voice assignment
\* get_voice_for_character called for one character and one gender hint, any
\* number of times in any number of processes; every process start draws the
\* salt of its hash().
MaxSeed == 2         \* hash salts a process can start with: 0..MaxSeed
MaxCalls == 2        \* calls of get_voice_for_character per behaviour

VoiceSeeds == 0..MaxSeed
VoiceCharacters == {"", "A", "Guard", "Player", "Stranger"}
VoiceGenders == {"male", "female", "unknown", None}

InitVoice ==
  /\ h \in {[phase |-> "voice", character |-> c, gender |-> g, seed |-> -1,
              results |-> <<>>] : c \in VoiceCharacters, g \in VoiceGenders}
  /\ files = {}
  /\ store = <<>>
  /\ synthesized = [f \in AllFileNames |-> <<>>]
  /\ firstRef = [f \in AllFileNames |-> "unset"]
  /\ runs = 0
  /\ pc = "idle"
  /\ script = "kokoro"
  /\ backend = "kokorotts"
  /\ start_line = 0
  /\ transcript = <<>>
  /\ dialogue_lines = <<>>
  /\ voices = [c \in {} |-> None]
  /\ idx = 0
  /\ generated_data = <<>>
  /\ skipped = 0
  /\ generated = 0
  /\ errors = 0
  /\ call = NoCall
  /\ lineLog = <<>>
  /\ errorLog = <<>>
  /\ resume = <<>>
  /\ summary = <<>>
  /\ start0 = [files |-> {}, rows |-> 0, known |-> {}]
  /\ setup = "ok"
  /\ conn = "none"

\* A new interpreter process starts: its hash salt is drawn.
VoiceProcessStart(seed) ==
  /\ runs < MaxRuns
  /\ runs' = runs + 1
  /\ h' = [h EXCEPT !.seed = seed]
  /\ UNCHANGED <<envVars, cfgVars, pc, idx, cntVars, obsVars, conn>>

\* get_voice_for_character(char, gender) in the running process.
VoiceCall ==
  /\ h.seed >= 0
  /\ Len(h.results) < MaxCalls
  /\ h' = [h EXCEPT !.results =
              Append(@, [seed |-> h.seed,
                         voice |-> get_voice_for_character(h.seed, h.character, h.gender)])]
  /\ UNCHANGED <<envVars, cfgVars, runs, pc, idx, cntVars, obsVars, conn>>

NextVoice ==
  \/ \E seed \in VoiceSeeds : VoiceProcessStart(seed)
  \/ VoiceCall

SpecVoice == InitVoice /\ [][NextVoice]_vars

\* ------------------------------------------------------------ pure functions
\* The variables of the scripts' runs while only one function is exercised.
NoRun ==
  /\ store = <<>>
  /\ synthesized = [f \in AllFileNames |-> <<>>]
  /\ firstRef = [f \in AllFileNames |-> "unset"]
  /\ runs = 0
  /\ pc = "idle"
  /\ script = "kokoro"
  /\ backend = "kokorotts"
  /\ start_line = 0
  /\ transcript = <<>>
  /\ dialogue_lines = <<>>
  /\ voices = [c \in {} |-> None]
  /\ idx = 0
  /\ generated_data = <<>>
  /\ skipped = 0
  /\ generated = 0
  /\ errors = 0
  /\ call = NoCall
  /\ lineLog = <<>>
  /\ errorLog = <<>>
  /\ resume = <<>>
  /\ summary = <<>>
  /\ start0 = [files |-> {}, rows |-> 0, known |-> {}]
  /\ setup = "ok"
  /\ conn = "none"

NoRunStep == UNCHANGED <<store, synthesized, firstRef, cfgVars, runs, pc, idx, cntVars, obsVars, conn>>

\* ------------------------------------------------------------ text sanitization
\* Python's str.replace(old, new): every non-overlapping occurrence of old,
\* found scanning from the left, is replaced.
RECURSIVE py_replace(_, _, _)
py_replace_First(s, old, new) ==
  IF Len(s) < Len(old) THEN s
  ELSE IF SubSeq(s, 1, Len(old)) = old
       THEN new \o SubSeq(s, Len(old) + 1, Len(s))
       ELSE SubSeq(s, 1, 1) \o py_replace(SubSeq(s, 2, Len(s)), old, new)

py_replace(s, old, new) ==
  IF Len(s) < Len(old) THEN s
  ELSE IF SubSeq(s, 1, Len(old)) = old
       THEN new \o py_replace(SubSeq(s, Len(old) + 1, Len(s)), old, new)
       ELSE SubSeq(s, 1, 1) \o py_replace(SubSeq(s, 2, Len(s)), old, new)

\* KokoroTTS.generate line 215: the string handed to the pipeline.
clean_text(text) == py_replace(text, "[player name]", "adventurer")

MaxPieces == 3       \* pieces a dialogue text is put together from

TextPieces == {"[player name]", "[player", " name]", "Hi ", "]", "adventurer"}

RECURSIVE Concat(_)
Concat(ps) == IF ps = <<>> THEN "" ELSE ps[1] \o Concat(Tail(ps))

Texts == {Concat(ps) : ps \in UNION {[1..n -> TextPieces] : n \in 1..MaxPieces}}

\* One call of KokoroTTS.generate for a text, with or without its artifact
\* in the output directory.
InitText ==
  /\ \E t \in Texts, cached \in BOOLEAN :
       /\ h = [phase |-> "text", text |-> t, passed |-> "unset", ret |-> "unset"]
       /\ files = IF cached THEN {FileName("Guard", t)} ELSE {}
  /\ NoRun

\* tts.generate("Guard", "am_liam", text): what reaches the pipeline, if
\* anything does.
TextGenerate(out) ==
  /\ h.phase = "text"
  /\ h.ret = "unset"
  /\ LET r == KokoroTTS_generate(files, "Guard", "am_liam", h.text, out)
     IN  /\ files' = r.files
         /\ h' = [h EXCEPT !.passed = IF r.synth THEN clean_text(h.text) ELSE None,
                            !.ret = IF r.raised = "no" THEN r.ret ELSE "raised"]
  /\ NoRunStep

NextText == \E out \in KokoroOutcomes : TextGenerate(out)

SpecText == InitText /\ [][NextText]_vars

\* ------------------------------------------------------------ silence trimming
\* Amplitudes are in thousandths: the default threshold 0.01 is 10.
threshold_default == 10
min_silence_duration_default == 1000

Abs(x) == IF x < 0 THEN -x ELSE x
Min2(a, b) == IF a < b THEN a ELSE b
Max2(a, b) == IF a > b THEN a ELSE b

\* Python's a[start:stop] on a 0-based array: a negative index counts from
\* the end, an index out of range is clamped.
SliceIndex(i, n) == IF i < 0 THEN Max2(i + n, 0) ELSE Min2(i, n)
PySlice(a, start, stop) ==
  SubSeq(a, SliceIndex(start, Len(a)) + 1, SliceIndex(stop, Len(a)))

\* np.where(np.abs(audio) > threshold)[0]: the 0-based indices, ascending.
NonSilent(audio, threshold) ==
  {i \in 0..(Len(audio) - 1) : Abs(audio[i + 1]) > threshold}

SetMin(S) == CHOOSE x \in S : \A y \in S : x <= y
SetMax(S) == CHOOSE x \in S : \A y \in S : x >= y

\* KokoroSDK._strip_silence (voiceover_cli/kokoro.py)
KokoroSDK_strip_silence(audio_data, threshold, min_silence_duration) ==
  LET non_silent == NonSilent(audio_data, threshold)
  IN  IF non_silent = {} THEN audio_data
      ELSE PySlice(audio_data,
                   Max2(0, SetMin(non_silent) - min_silence_duration),
                   Min2(Len(audio_data), SetMax(non_silent) + min_silence_duration))

\* KokoroTTS._strip_silence (generate_kokoro.py)
KokoroTTS_strip_silence_NoClamp(audio, threshold) ==
  LET indices == NonSilent(audio, threshold)
  IN  IF indices = {} THEN audio
      ELSE PySlice(audio, SetMin(indices) - 1000,
                   Min2(Len(audio), SetMax(indices) + 1000))

KokoroTTS_strip_silence(audio, threshold) ==
  LET indices == NonSilent(audio, threshold)
  IN  IF indices = {} THEN audio
      ELSE PySlice(audio, Max2(0, SetMin(indices) - 1000),
                   Min2(Len(audio), SetMax(indices) + 1000))

\* The waveforms: a run of near-silence, a few samples at, above or below
\* the threshold, a run of near-silence; the runs are around the padding.
MaxBody == 2         \* samples between the two runs of near-silence

RunLengths == {0, 1, min_silence_duration_default - 1, min_silence_duration_default,
               min_silence_duration_default + 1}
BodySamples == {0, threshold_default + 1, -(threshold_default + 1)}
Bodies == UNION {[1..n -> BodySamples] : n \in 0..MaxBody}

Waveform(lead, body, trail) ==
  [i \in 1..lead |-> threshold_default] \o body \o [i \in 1..trail |-> -threshold_default]

InitAudio ==
  /\ \E lead \in RunLengths, trail \in RunLengths, body \in Bodies,
        impl \in {"KokoroSDK", "KokoroTTS"} :
       h = [phase |-> "audio", impl |-> impl, audio |-> Waveform(lead, body, trail),
            done |-> FALSE, result |-> <<>>]
  /\ files = {}
  /\ NoRun

\* audio = self._strip_silence(audio), as both generate functions call it.
StripSilence ==
  /\ h.phase = "audio"
  /\ ~h.done
  /\ h' = [h EXCEPT !.done = TRUE, !.result =
              IF h.impl = "KokoroSDK"
              THEN KokoroSDK_strip_silence(h.audio, threshold_default,
                                           min_silence_duration_default)
              ELSE KokoroTTS_strip_silence(h.audio, threshold_default)]
  /\ UNCHANGED files
  /\ NoRunStep

NextAudio == StripSilence

SpecAudio == InitAudio /\ [][NextAudio]_vars

\* ------------------------------------------------------------ content keys
\* Two generate calls into an empty output directory, for two (character,
\* text) pairs; character names and texts are free text of the transcript.
KeyCharacters == {"Guard", "Guard|Halt", "Ana", "Ana|in"}
KeyTexts == {"Halt!", "Halt|Halt!", "in|a barrel", "a barrel"}
KeyBackends == {"elevenlabs", "kokoro", "kokorotts"}

\* generate of the backend in use.
backend_generate(b, fs, character, voice_id, text, out) ==
  IF b = "kokorotts"
  THEN KokoroTTS_generate(fs, character, voice_id, text, out)
  ELSE sdk_generate(b, fs, character, voice_id, text, out)

InitKey ==
  /\ \E c1 \in KeyCharacters, c2 \in KeyCharacters, t1 \in KeyTexts, t2 \in KeyTexts,
        b \in KeyBackends :
       h = [phase |-> "key", b |-> b, pairs |-> << <<c1, t1>>, <<c2, t2>> >>,
            n |-> 0, names |-> <<>>, served |-> <<>>]
  /\ files = {}
  /\ NoRun

\* The next of the two calls; it is served from the cache when the artifact
\* of its file name is there already.
KeyGenerate ==
  /\ h.phase = "key"
  /\ h.n < 2
  /\ LET p == h.pairs[h.n + 1]
         file_name == FileName(p[1], p[2])
         r == backend_generate(h.b, files, p[1], "am_liam", p[2], "ok")
     IN  /\ files' = r.files
         /\ h' = [h EXCEPT !.n = @ + 1,
                            !.names = Append(@, file_name),
                            !.served = Append(@, IF r.synth THEN "synthesized" ELSE "cached")]
  /\ NoRunStep

NextKey == KeyGenerate

SpecKey == InitKey /\ [][NextKey]_vars

\* ------------------------------------------------------------ wiki genders
\* str.lower, `sub in s`, s.split('(')[0] and str.strip on the names and
\* page texts of the model.
ascii_uppercase == "ABCDEFGHIJKLMNOPQRSTUVWXYZ"
ascii_lowercase == "abcdefghijklmnopqrstuvwxyz"

lower_table ==
  [c \in {SubSeq(ascii_uppercase, i, i) : i \in 1..Len(ascii_uppercase)} |->
     LET i == CHOOSE i \in 1..Len(ascii_uppercase) : SubSeq(ascii_uppercase, i, i) = c
     IN  SubSeq(ascii_lowercase, i, i)]

lower_char(c) == IF c \in DOMAIN lower_table THEN lower_table[c] ELSE c

RECURSIVE py_lower(_)
py_lower(s) ==
  IF s = "" THEN "" ELSE lower_char(SubSeq(s, 1, 1)) \o py_lower(SubSeq(s, 2, Len(s)))

py_in(sub, s) ==
  \E i \in 1..(Len(s) - Len(sub) + 1) : SubSeq(s, i, i + Len(sub) - 1) = sub

RECURSIVE split_first(_, _)
split_first(s, sep) ==
  IF s = "" \/ SubSeq(s, 1, 1) = sep THEN ""
  ELSE SubSeq(s, 1, 1) \o split_first(SubSeq(s, 2, Len(s)), sep)

RECURSIVE py_strip(_)
py_strip(s) ==
  IF s = "" THEN ""
  ELSE IF SubSeq(s, 1, 1) = " " THEN py_strip(SubSeq(s, 2, Len(s)))
  ELSE IF SubSeq(s, Len(s), Len(s)) = " " THEN py_strip(SubSeq(s, 1, Len(s) - 1))
  ELSE s

skip_patterns == {"player", "narrator", "unknown", "voice", "note", "book", "scroll"}
female_words == {" she ", " her ", " herself "}
male_words == {" he ", " his ", " him ", " himself "}

\* What one request to the wiki gives: an exception (timeout, connection or
\* parse error) or a page with its status code, the text of the infobox's
\* gender cell (None without one) and its first paragraph (None without one).
Pages ==
  {[exception |-> TRUE, status_code |-> 0, gender_text |-> None, first_para |-> None],
   [exception |-> FALSE, status_code |-> 404, gender_text |-> None, first_para |-> None]}
  \cup [exception : {FALSE}, status_code : {200},
        gender_text : {None, "Female", "Male", "N/A"},
        first_para : {None, "So she went.", "At his post.", "It is old."}]

\* The value the parsed page yields, lines 123-159.
gender_of_page(page) ==
  IF page.gender_text # None /\ py_in("female", py_lower(page.gender_text)) THEN "female"
  ELSE IF page.gender_text # None /\ py_in("male", py_lower(page.gender_text)) THEN "male"
  ELSE IF page.first_para # None
          /\ \E word \in female_words : py_in(word, py_lower(page.first_para)) THEN "female"
  ELSE IF page.first_para # None
          /\ \E word \in male_words : py_in(word, py_lower(page.first_para)) THEN "male"
  ELSE None

\* The result of one call: the value returned, _gender_cache afterwards and
\* whether requests.get was called.
GenderResult(ret, cache, requested) == [ret |-> ret, cache |-> cache, requested |-> requested]

Cached(cache, name, value) == [n \in DOMAIN cache \cup {name} |-> IF n = name THEN value ELSE cache[n]]

\* wiki_utils.get_character_gender; page is what the wiki answers if asked.
get_character_gender_NoFailureCache(cache, character_name, page) ==
  IF character_name \in DOMAIN cache
  THEN GenderResult(cache[character_name], cache, FALSE)
  ELSE LET clean_name == py_strip(split_first(character_name, "("))
       IN  IF \E pattern \in skip_patterns : py_in(pattern, py_lower(clean_name))
           THEN GenderResult(None, Cached(cache, character_name, None), FALSE)
           ELSE IF page.exception \/ page.status_code # 200
                THEN GenderResult(None, cache, TRUE)
                ELSE GenderResult(gender_of_page(page),
                                  Cached(cache, character_name, gender_of_page(page)), TRUE)

get_character_gender(cache, character_name, page) ==
  IF character_name \in DOMAIN cache
  THEN GenderResult(cache[character_name], cache, FALSE)
  ELSE LET clean_name == py_strip(split_first(character_name, "("))
       IN  IF \E pattern \in skip_patterns : py_in(pattern, py_lower(clean_name))
           THEN GenderResult(None, Cached(cache, character_name, None), FALSE)
           ELSE IF page.exception \/ page.status_code # 200
                THEN GenderResult(None, Cached(cache, character_name, None), TRUE)
                ELSE GenderResult(gender_of_page(page),
                                  Cached(cache, character_name, gender_of_page(page)), TRUE)

MaxLookups == 3      \* calls of get_character_gender in one process

GenderNames == {"Guard", "Player", "Ana (in a Barrel)", "Irena"}

\* A fresh process: the module-level _gender_cache = {}.
InitGender ==
  /\ h = [phase |-> "gender", cache |-> [n \in {} |-> None], lookups |-> 0,
          requests |-> [n \in GenderNames |-> 0],
          first |-> [n \in GenderNames |-> "unset"],
          name |-> None, ret |-> None, requested |-> FALSE]
  /\ files = {}
  /\ NoRun

\* One call, as get_characters_genders makes for each character.
GenderLookup(character_name, page) ==
  /\ h.phase = "gender"
  /\ h.lookups < MaxLookups
  /\ LET r == get_character_gender(h.cache, character_name, page)
     IN  h' = [h EXCEPT !.cache = r.cache,
                        !.lookups = @ + 1,
                        !.requests[character_name] = @ + (IF r.requested THEN 1 ELSE 0),
                        !.first[character_name] = IF @ = "unset" THEN r.ret ELSE @,
                        !.name = character_name,
                        !.ret = r.ret,
                        !.requested = r.requested]
  /\ UNCHANGED files
  /\ NoRunStep

NextGender == \E character_name \in GenderNames, page \in Pages : GenderLookup(character_name, page)

SpecGender == InitGender /\ [][NextGender]_vars

\* ------------------------------------------------------------ observations
Last(q) == q[Len(q)]

CallFile == FileName(call.character, call.text)

\* Rows this run has added to the table so far.
NewRows == SubSeq(store, start0.rows + 1, Len(store))

\* The lines of this run whose generate call returned, in loop order.
OkEntries == SelectSeq(lineLog, LAMBDA e : e.status = "ok")

RunOver == pc \in {"done", "idle"} /\ runs > 0

\* A count of the run-end summary; a count the summary does not print is 0.
Count(label) ==
  IF \E i \in DOMAIN summary : summary[i][1] = label
  THEN (CHOOSE p \in Range(summary) : p[1] = label)[2]
  ELSE 0

\* ------------------------------------------------------------ claims
\* C1: a generate call for a (character, text) pair whose artifact already
\* exists in the output directory does not invoke the underlying synthesis
\* mechanism, whatever the voice_id and whichever backend or run made the
\* artifact; so no pair is successfully synthesized more than once.
C1_SynthesizedAtMostOnce ==
  /\ (call.line >= 0 /\ call.existed) => ~call.synth
  /\ \A f \in AllFileNames : Len(synthesized[f]) <= 1

\* A cache hit on an artifact an earlier run made with another backend and
\* another voice.
C1_Witness ==
  /\ call.line >= 0
  /\ call.existed
  /\ CallFile \in start0.files
  /\ Len(synthesized[CallFile]) = 1
  /\ synthesized[CallFile][1].backend # backend
  /\ synthesized[CallFile][1].voice_id # call.voice_id

\* C2: a generate call for a (character, text) pair that has been generated
\* before returns the same audio reference as the first call did, the file
\* name derived from the content key, in every backend.
C2_SameReference ==
  (call.line >= 0 /\ call.raised = "no")
    => /\ call.ret = firstRef[CallFile]
       /\ call.ret = CallFile

\* C3: with the same voice map and the same answer of the synthesis
\* mechanism per line, a run over the N lines from offset 0 leaves the same
\* set of records in the table as a run over lines [0, k) followed by a run
\* resumed at offset k, for every k in 0..N.
C3_Resumable ==
  (h.phase = "second" /\ pc = "done" /\ ~h.firstHalted)
    => Range(store) = Range(h.fullRows)

\* Both parts of a split at an inner line added records.
C3_Witness ==
  /\ h.phase = "second"
  /\ pc = "done"
  /\ ~h.firstHalted
  /\ h.k > 0
  /\ h.k < Len(h.t)
  /\ start0.rows > 0
  /\ Len(NewRows) > 0

\* C4: in a resumed run of auto_generate_tourist_trap (start offset > 0) the
\* previous and next text handed to generate are those of the line's
\* neighbours in the full transcript, as in a run from offset 0.
C4_ResumedContext ==
  (script = "tourist" /\ start_line > 0 /\ call.line >= 0)
    => /\ call.previous_line = previous_line_of(transcript, call.line)
       /\ call.next_line = next_line_of(transcript, call.line)

\* C5: a quota-exceeded failure ends the loop at the failing line k: no
\* later line is consumed in that run, and the run writes to the table the
\* records of exactly the lines before k whose generate call returned.
C5_QuotaHalt ==
  /\ \A i \in DOMAIN lineLog : lineLog[i].status = "quota" => i = Len(lineLog)
  /\ (lineLog # <<>> /\ Last(lineLog).status = "quota")
       => /\ pc # "loop"
          /\ call.line = Last(lineLog).line
          /\ \A e \in Range(lineLog) : e.line <= Last(lineLog).line
          /\ \A e \in Range(OkEntries) : e.line < Last(lineLog).line
          /\ pc = "save" => NewRows = <<>>
          /\ RunOver =>
               /\ Len(NewRows) = Len(OkEntries)
               /\ \A j \in DOMAIN NewRows :
                    /\ NewRows[j].character = transcript[OkEntries[j].line + 1][1]
                    /\ NewRows[j].text = transcript[OkEntries[j].line + 1][2]

\* A halted run that recorded an earlier line and has finished.
C5_Witness ==
  /\ RunOver
  /\ lineLog # <<>>
  /\ Last(lineLog).status = "quota"
  /\ Len(NewRows) >= 1
  /\ Last(lineLog).line < Len(transcript) - 1

\* C6: on a quota halt of a run started at offset s >= 0 the printed resume
\* offset is the failing line's index in the full transcript: a run started
\* with it begins at the failing line, the halted run consumed every line
\* from s up to it, and no line at or after it has a record from this run.
C6_ResumeOffset ==
  (resume # <<>> /\ start_line >= 0)
    => /\ Len(resume) = 1
       /\ resume[1] = Last(lineLog).line
       /\ resume[1] \in 0..(Len(transcript) - 1)
       /\ RunLines(transcript, resume[1])[1] = <<call.character, call.text>>
       /\ Len(RunLines(transcript, resume[1])) = Len(transcript) - Last(lineLog).line
       /\ {e.line : e \in Range(lineLog)} = start_line..resume[1]
       /\ \A e \in Range(OkEntries) : e.line < resume[1]

\* A halt in a resumed run, on a line other than the run's first.
C6_Witness ==
  /\ resume # <<>>
  /\ start_line > 0
  /\ idx > 0
  /\ RunOver

\* C7: a line whose character has no voice adds one to the skip counter and
\* nothing to the error counter or the error log, makes no generate call,
\* leaves the output directory, the table and the queued records as they
\* are, and the loop goes on to the next line.
C7_SkipFrame ==
  [][(pc = "loop" /\ dialogue_lines[idx + 1][1] \notin DOMAIN voices)
       => /\ skipped' = skipped + 1
          /\ errors' = errors
          /\ errorLog' = errorLog
          /\ generated' = generated
          /\ call' = call
          /\ files' = files
          /\ synthesized' = synthesized
          /\ store' = store
          /\ generated_data' = generated_data
          /\ idx' = idx + 1
          /\ (idx + 1 < Len(dialogue_lines) => pc' = "loop")]_vars

\* A skipped line followed by more lines of the same run.
C7_Witness ==
  /\ lineLog # <<>>
  /\ Last(lineLog).status = "skip"
  /\ skipped = 1
  /\ pc = "loop"

\* C8: a synthesis failure other than quota-exceeded adds no record for its
\* line and the loop goes on with the next line; the loop stops before the
\* last line only on quota-exceeded from the ElevenLabs backend.
C8_FailureContinues ==
  /\ [][(Len(lineLog') = Len(lineLog) + 1 /\ Last(lineLog').status = "error")
          => /\ idx' = idx + 1
             /\ (idx + 1 < Len(dialogue_lines) => pc' = "loop")
             /\ store' = store
             /\ generated_data' = generated_data
             /\ files' = files]_vars
  /\ []((pc \in {"save", "finish", "done"} /\ idx < Len(dialogue_lines))
          => /\ backend = "elevenlabs"
             /\ lineLog # <<>>
             /\ Last(lineLog).status = "quota")

\* A failed line followed by a line of the same run that was generated.
C8_Witness ==
  /\ Len(lineLog) >= 2
  /\ lineLog[Len(lineLog) - 1].status = "error"
  /\ Last(lineLog).status = "ok"

\* C9: at the end of a run the printed counts of generated, skipped and
\* errored lines add up to the number of lines the loop consumed.
C9_SummaryCounts ==
  pc = "done"
    => Count("Generated") + Count("Skipped") + Count("Errors") = Len(lineLog)

\* C10: the example transcript with voice map {Guard: v1}, offset 0, an empty
\* output directory and no failure: lines 0 and 2 are synthesized under v1
\* and recorded, line 1 is skipped; generated 2, skipped 1, no error.
ExampleRun ==
  /\ script = "tourist"
  /\ transcript = ExampleLines
  /\ voices = ("Guard" :> "v1")
  /\ start_line = 0
  /\ start0.files = {}
  /\ pc = "done"
  /\ \A e \in Range(lineLog) : e.status \in {"ok", "skip"}

C10_ExampleScenario ==
  ExampleRun
    => /\ lineLog = << [line |-> 0, status |-> "ok"], [line |-> 1, status |-> "skip"],
                       [line |-> 2, status |-> "ok"] >>
       /\ Count("Generated") = 2
       /\ Count("Skipped") = 1
       /\ errorLog = <<>>
       /\ Len(NewRows) = 2
       /\ <<NewRows[1].character, NewRows[1].text>> = ExampleLines[1]
       /\ <<NewRows[2].character, NewRows[2].text>> = ExampleLines[3]
       /\ \A i \in {1, 3} :
            /\ FileName(ExampleLines[i][1], ExampleLines[i][2]) \in files
            /\ synthesized[FileName(ExampleLines[i][1], ExampleLines[i][2])]
                 = << [backend |-> backend, voice_id |-> "v1"] >>

C10_Witness == ExampleRun /\ store # <<>>

\* C11: get_voice_for_character called with the same character and gender
\* returns the same voice_id on every call, also when the calls are made in
\* separate process runs.
C11_VoiceDeterministic ==
  \A i, j \in DOMAIN h.results : h.results[i].voice = h.results[j].voice

\* C12: get_voice_for_character returns, for every character string, a
\* member of FEMALE_VOICES when gender is 'female' and a member of
\* MALE_VOICES for every other gender value.
C12_PoolConfined ==
  \A i \in DOMAIN h.results :
    /\ h.gender = "female" => h.results[i].voice \in Range(FEMALE_VOICES)
    /\ h.gender # "female" => h.results[i].voice \in Range(MALE_VOICES)
    /\ h.results[i].voice \in Range(FEMALE_VOICES) \cup Range(MALE_VOICES)

\* A call without a gender for a character whose hash is negative, or with
\* a gender that is neither 'male' nor 'female'.
C12_Witness ==
  /\ h.results # <<>>
  /\ \/ h.gender = None /\ PyHash(h.seed, h.character) < 0
     \/ h.gender = "unknown" /\ PyHash(h.seed, h.character) > 0


\* The rows the table held when this run started.
RowsAtStart == SubSeq(store, 1, start0.rows)

\* At most one row per exact (character, text) pair.
OnePerPair(rows) ==
  \A i, j \in DOMAIN rows :
    (rows[i].character = rows[j].character /\ rows[i].text = rows[j].text) => i = j

\* C13: a run against a table an earlier run filled adds no second record
\* for a (character, text) pair already present: if the table held at most
\* one record per pair when the run started, it holds at most one per pair
\* afterwards, in generate_kokoro and in auto_generate_tourist_trap.
C13_NoSecondRecord ==
  (start0.rows > 0 /\ OnePerPair(RowsAtStart))
    => /\ \A j \in DOMAIN NewRows :
            ~dialog_exists(RowsAtStart, NewRows[j].character, NewRows[j].text)
       /\ OnePerPair(store)

\* C14: the number of records a run appends to the table equals the number
\* of its lines whose generate call returned; skipped and failed lines add
\* none, also when two lines of the transcript have the same (character,
\* text).
C14_OneRecordPerOkLine ==
  RunOver => Len(NewRows) = Len(OkEntries)

\* C15: a run whose setup meets a fatal condition (the quest is not found,
\* the API key of the remote backend is absent, espeak/espeak-ng is missing,
\* the local pipeline cannot be created) ends without any generate call,
\* any artifact written and any write to the table.
C15_FatalSetupNoOutput ==
  setup # "ok"
    => /\ call = NoCall
       /\ lineLog = <<>>
       /\ files = start0.files
       /\ Len(store) = start0.rows

\* C16: every voice_id of the voice map built before the loop is known to
\* the active backend: an ElevenLabs map holds only voice ids the service's
\* voice list returned, the static Kokoro map only keys of KokoroSDK.VOICES,
\* and both gender pools of generate_kokoro are subsets of AVAILABLE_VOICES.
C16_VoicesKnown ==
  /\ runs > 0 => {voices[c] : c \in DOMAIN voices} \subseteq start0.known
  /\ \A vl \in VoiceLookups :
       {get_elevenlabs_voice_map(vl)[c] : c \in DOMAIN get_elevenlabs_voice_map(vl)}
         \subseteq {vl[n] : n \in DOMAIN vl}
  /\ {get_voice_mapping_kokoro[c] : c \in DOMAIN get_voice_mapping_kokoro}
       \subseteq KokoroSDK_VOICES
  /\ Range(FEMALE_VOICES) \cup Range(MALE_VOICES) \subseteq AVAILABLE_VOICES

\* An ElevenLabs run whose account offers two of the mapped voices, in its
\* loop.
C16_Witness ==
  /\ pc = "loop"
  /\ backend = "elevenlabs"
  /\ DOMAIN voices = {"Guard", "Player"}
  /\ start0.known = {"v1", "v2"}

\* C17: a line is synthesized and its record written to the table before
\* the synthesis of the next line begins: when the run is interrupted, the
\* table holds a record for every line the run had synthesized.
C17_RecordedAtInterrupt ==
  pc = "killed"
    => \A f \in files \ start0.files : \E row \in Range(store) : row.uri = f

\* C18: for any transcript, start offset and answers of the backend, a run
\* visits line indices in strictly increasing order, attempts each line at
\* most once, and eventually ends, either with every line of its list
\* consumed or halted on a quota failure, with its connection closed.
C18_TerminatesSinglePass ==
  /\ [](\A i, j \in DOMAIN lineLog : i < j => lineLog[i].line < lineLog[j].line)
  /\ [](pc = "done"
          => /\ conn = "closed"
             /\ \/ idx = Len(dialogue_lines)
                \/ lineLog # <<>> /\ Last(lineLog).status = "quota")
  /\ (pc \in {"loop", "save", "finish"}) ~> (pc = "done")

\* A run resumed at an offset beyond its transcript has ended.
C18_Witness ==
  /\ pc = "done"
  /\ conn = "closed"
  /\ start_line > Len(transcript)
  /\ dialogue_lines = <<>>

\* The lines of this run whose generate call raised, in loop order.
FailedEntries == SelectSeq(lineLog, LAMBDA e : e.status \in {"error", "quota"})

\* C19: the line number logged for a failed line is its 1-based position in
\* the full transcript (start offset + loop index + 1), in both scripts and
\* for any start offset >= 0.
C19_ErrorLineNumber ==
  start_line >= 0
    => /\ Len(errorLog) = Len(FailedEntries)
       /\ \A j \in DOMAIN errorLog : errorLog[j] = FailedEntries[j].line + 1

\* C20: in a run of auto_generate_tourist_trap from offset 0, the previous
\* text handed to generate for line i is the text of line i-1 if i > 0 and
\* none otherwise, and the next text is the text of line i+1 if there is
\* one and none otherwise, whether or not those lines were skipped or failed.
C20_NeighbourContext ==
  (script = "tourist" /\ start_line = 0 /\ call.line >= 0)
    => /\ call.previous_line =
            IF call.line > 0 THEN transcript[call.line][2] ELSE None
       /\ call.next_line =
            IF call.line + 2 <= Len(transcript) THEN transcript[call.line + 2][2] ELSE None

\* A generate call for a line whose predecessor was skipped.
C20_Witness ==
  /\ script = "tourist"
  /\ start_line = 0
  /\ Len(lineLog) >= 2
  /\ lineLog[Len(lineLog) - 1].status = "skip"
  /\ call.line = Last(lineLog).line
  /\ call.previous_line = "[player name], let me pass"

\* The occurrences of sub in s, by start position.
Occurrences(s, sub) ==
  {i \in 1..(Len(s) - Len(sub) + 1) : SubSeq(s, i, i + Len(sub) - 1) = sub}

\* C21: on a cache miss, the string KokoroTTS.generate hands to the pipeline
\* is the input text with every occurrence of [player name] replaced by
\* adventurer: no occurrence of the placeholder reaches the pipeline.
C21_PlaceholderReplaced ==
  (h.passed # "unset" /\ h.passed # None)
    => /\ Occurrences(h.passed, "[player name]") = {}
       /\ Len(h.passed) = Len(h.text) - 3 * Cardinality(Occurrences(h.text, "[player name]"))
       /\ Cardinality(Occurrences(h.passed, "adventurer"))
            = Cardinality(Occurrences(h.text, "adventurer"))
              + Cardinality(Occurrences(h.text, "[player name]"))
       /\ Occurrences(h.text, "[player name]") = {} => h.passed = h.text

\* A text with two occurrences of the placeholder has reached the pipeline.
C21_Witness ==
  /\ h.passed # "unset"
  /\ h.passed # None
  /\ Cardinality(Occurrences(h.text, "[player name]")) >= 2

\* The 1-based positions of the samples louder than the default threshold.
Loud(audio) == {i \in DOMAIN audio : audio[i] > 10 \/ audio[i] < -10}

\* C22: _strip_silence returns a contiguous slice of its input that holds
\* every sample louder than the threshold and at most 1000 samples before
\* the first and after the last of them; it returns the input unchanged
\* when no sample is louder than the threshold.
C22_StripSilence ==
  (h.phase = "audio" /\ h.done)
    => IF Loud(h.audio) = {}
       THEN h.result = h.audio
       ELSE \E s \in Max2(1, SetMin(Loud(h.audio)) - 1000)..SetMin(Loud(h.audio)) :
              /\ s + Len(h.result) - 1 >= SetMax(Loud(h.audio))
              /\ s + Len(h.result) - 1 <= Len(h.audio)
              /\ (s + Len(h.result) - 1) - SetMax(Loud(h.audio)) <= 1000
              /\ h.result = SubSeq(h.audio, s, s + Len(h.result) - 1)

\* A waveform with loud samples whose near-silence is trimmed on both sides.
C22_Witness ==
  /\ h.phase = "audio"
  /\ h.done
  /\ Loud(h.audio) # {}
  /\ Len(h.result) < Len(h.audio)
  /\ h.result[1] = 10
  /\ h.result[Len(h.result)] = -10
  /\ SetMin(Loud(h.audio)) > 1001
  /\ Len(h.audio) - SetMax(Loud(h.audio)) > 1000

\* C23: every record in the table carries a non-null file name, and the
\* artifact of that name exists in the output directory, also when the
\* generate call behind the record was served from the cache.
C23_RecordHasArtifact ==
  \A row \in Range(store) : row.uri # None /\ row.uri \in files

\* C24: the content key character + '|' + text is injective on (character,
\* text) pairs: two lines that differ in character or in text never share a
\* file name, and the second is never served the audio cached for the first.
C24_KeyInjective ==
  (h.phase = "key" /\ h.n = 2 /\ h.pairs[1] # h.pairs[2])
    => /\ h.names[1] # h.names[2]
       /\ h.served[2] = "synthesized"

\* C25: in generate_kokoro the voice map is built from the characters of the
\* whole transcript, so the loop never takes its skip branch: no line is
\* logged as skipped and the skipped count is 0 throughout every run.
C25_NeverSkipped ==
  script = "kokoro"
    => /\ skipped = 0
       /\ \A i \in DOMAIN lineLog : lineLog[i].status # "skip"
       /\ pc = "loop" => dialogue_lines[idx + 1][1] \in DOMAIN voices

\* A finished resumed run over a transcript with a character of unknown
\* gender that has no manual voice.
C25_Witness ==
  /\ script = "kokoro"
  /\ pc = "done"
  /\ start_line > 0
  /\ skipped = 0
  /\ \E i \in DOMAIN lineLog :
       /\ dialogue_lines[i][1] = "Stranger"
       /\ lineLog[i].status = "ok"
  /\ \E seed \in HashSeeds :
       voices["Stranger"] = get_voice_for_character(seed, "Stranger", None)

\* C26: the gender cache makes get_character_gender idempotent within a
\* process: a name causes at most one wiki request, every call returns what
\* the first call for that name returned (None after a failed or non-200
\* request included), and a cache entry, once written, keeps its value.
C26_GenderIdempotent ==
  h.phase = "gender"
    => /\ \A n \in GenderNames : h.requests[n] <= 1
       /\ h.lookups > 0 => h.ret = h.first[h.name]
       /\ \A n \in GenderNames :
            h.first[n] # "unset" => (n \in DOMAIN h.cache /\ h.cache[n] = h.first[n])

\* A call answered from the cache with the None its name's one request left,
\* in a process that has found another name's gender.
C26_Witness ==
  /\ h.phase = "gender"
  /\ h.lookups > 1
  /\ ~h.requested
  /\ h.requests[h.name] = 1
  /\ h.ret = None
  /\ \E n \in GenderNames \ {h.name} : h.requests[n] = 1 /\ h.first[n] = "female"

====
